---- MODULE Spec2Model ----
(***************************************************************************)
(* A model of vigenere.py: the shift-cipher primitives (normalize_text,    *)
(* encrypt, decrypt) and the Kasiski cracking pipeline (find_multiples,    *)
(* calc_distances, prime_factors, find_common_divisors, crack).            *)
(*                                                                         *)
(* A Python str is a sequence of one-character strings.  A Python dict is  *)
(* a sequence of records [k, v] in insertion order (dicts iterate in       *)
(* insertion order, and crack's max() depends on it).  Python positions    *)
(* are 0-based; TLA+ sequences are 1-based, so s[i] in Python is s[i+1]    *)
(* here.  A call ends in an outcome: a returned value or a raised          *)
(* exception.                                                              *)
(***************************************************************************)
EXTENDS Integers, Sequences, FiniteSets, TLC

VARIABLES
    pc,          \* which call has been made: "ready" before any
    text,        \* the (raw) text argument: plain or cypher
    key,         \* the (raw) key argument of encrypt / decrypt
    verbosity,   \* the verbosity argument
    multiples,   \* dict ngram -> positions (find_multiples' result)
    distances,   \* list of distances (calc_distances' result)
    div_freqs,   \* dict divisor -> occurrences (find_common_divisors' result)
    key_length,  \* crack's key_length (0 while unset)
    raw_key,     \* crack's raw_key as far as it was built
    ret          \* outcome of the last call

vars == <<pc, text, key, verbosity, multiples, distances, div_freqs,
          key_length, raw_key, ret>>

----------------------------------------------------------------------------
(* Bounds of the model *)

MaxPlainLen == 3
MaxKeyLen == 3
MaxTextLen == 6
MaxLongLen == 18
MaxCrackLen == 9
MaxVerbosity == 4
MaxPos == 5
MaxDist == 24
MaxNumDist == 2

----------------------------------------------------------------------------
(* Constants of the program *)

ALPHABET ==
    << "A", "B", "C", "D", "E", "F", "G", "H", "I", "J", "K", "L", "M",
       "N", "O", "P", "Q", "R", "S", "T", "U", "V", "W", "X", "Y", "Z" >>

\* string.ascii_lowercase: what str.upper() maps onto ALPHABET, letter by letter
LOWERCASE ==
    << "a", "b", "c", "d", "e", "f", "g", "h", "i", "j", "k", "l", "m",
       "n", "o", "p", "q", "r", "s", "t", "u", "v", "w", "x", "y", "z" >>

MIN_NGRAM == 3
MAX_NGRAM == 16
MOST_COMMON_LETTER == "E"

----------------------------------------------------------------------------
(* Outcomes of a call *)

Return(v) == [kind |-> "return", value |-> v, exc |-> ""]
Raise(e) == [kind |-> "raise", value |-> <<>>, exc |-> e]
NoCall == [kind |-> "none", value |-> <<>>, exc |-> ""]

----------------------------------------------------------------------------
(* Sequence and dict helpers *)

Range(s) == {s[i] : i \in 1..Len(s)}

Strings(chars, maxlen) == UNION {[1..n -> chars] : n \in 0..maxlen}

\* ALPHABET.index(char), 0-based; char is a letter of ALPHABET
AlphabetIndex(char) == (CHOOSE i \in 1..Len(ALPHABET) : ALPHABET[i] = char) - 1

\* str.upper() on one ASCII character
Upper(char) ==
    IF \E i \in 1..Len(LOWERCASE) : LOWERCASE[i] = char
    THEN ALPHABET[CHOOSE i \in 1..Len(LOWERCASE) : LOWERCASE[i] = char]
    ELSE char

\* position of key k in dict d, 0 when absent ("k not in d")
DictIndex(d, k) ==
    IF \E j \in 1..Len(d) : d[j].k = k
    THEN CHOOSE j \in 1..Len(d) : d[j].k = k
    ELSE 0

\* d.get(k, 0)
DictGet(d, k) == IF DictIndex(d, k) = 0 THEN 0 ELSE d[DictIndex(d, k)].v

\* sorted(seq): ascending, by insertion
RECURSIVE sorted_insert(_, _)
sorted_insert(s, x) ==
    IF s = <<>> THEN <<x>>
    ELSE IF x < Head(s) THEN <<x>> \o s
    ELSE <<Head(s)>> \o sorted_insert(Tail(s), x)

RECURSIVE sorted(_)
sorted(s) == IF s = <<>> THEN <<>> ELSE sorted_insert(sorted(SubSeq(s, 1, Len(s) - 1)), s[Len(s)])

----------------------------------------------------------------------------
(* Standard Vigenere encryption / decryption *)

normalize_text(t) ==
    SelectSeq([i \in 1..Len(t) |-> Upper(t[i])], LAMBDA char : char \in Range(ALPHABET))

\* key_offsets = [ALPHABET.index(char) for char in normalize_text(key)]
key_offsets_of(k) ==
    LET nk == normalize_text(k) IN [j \in 1..Len(nk) |-> AlphabetIndex(nk[j])]

\* The loop of encrypt from index i on.  i % len(key) uses the length of the
\* key as passed (not of its normalized form): ZeroDivisionError for an empty
\* key string, IndexError when the index runs past key_offsets.
RECURSIVE encrypt_loop(_, _, _, _, _)
encrypt_loop(plain, k, key_offsets, i, cypher) ==
    IF i >= Len(plain) THEN Return(cypher)
    ELSE IF Len(k) = 0 THEN Raise("ZeroDivisionError")
    ELSE IF i % Len(k) >= Len(key_offsets) THEN Raise("IndexError")
    ELSE encrypt_loop(plain, k, key_offsets, i + 1,
            Append(cypher,
                   ALPHABET[((AlphabetIndex(plain[i + 1]) + key_offsets[(i % Len(k)) + 1])
                             % Len(ALPHABET)) + 1]))

encrypt(plain, k) == encrypt_loop(normalize_text(plain), k, key_offsets_of(k), 0, <<>>)

RECURSIVE decrypt_loop(_, _, _, _, _)
decrypt_loop(cypher, k, key_offsets, i, plain) ==
    IF i >= Len(cypher) THEN Return(plain)
    ELSE IF Len(k) = 0 THEN Raise("ZeroDivisionError")
    ELSE IF i % Len(k) >= Len(key_offsets) THEN Raise("IndexError")
    ELSE decrypt_loop(cypher, k, key_offsets, i + 1,
            Append(plain,
                   ALPHABET[((AlphabetIndex(cypher[i + 1]) - key_offsets[(i % Len(k)) + 1])
                             % Len(ALPHABET)) + 1]))

\* a decrypt that shifts forward, as encrypt does
decrypt_forward(cypher, k) == encrypt(cypher, k)

decrypt(cypher, k) == decrypt_loop(normalize_text(cypher), k, key_offsets_of(k), 0, <<>>)

----------------------------------------------------------------------------
(* Calls of the cipher primitives *)

RawChars == {"B", "z", "-"}

HELLOWORLD == <<"H", "E", "L", "L", "O", "W", "O", "R", "L", "D">>
KEY == <<"K", "E", "Y">>
RIJVSUYVJN == <<"R", "I", "J", "V", "S", "U", "Y", "V", "J", "N">>

Idle ==
    /\ verbosity = 0
    /\ multiples = <<>>
    /\ distances = <<>>
    /\ div_freqs = <<>>
    /\ key_length = 0
    /\ raw_key = <<>>
    /\ ret = NoCall

InitCipher ==
    /\ pc = "ready"
    /\ text \in Strings(RawChars, MaxPlainLen) \cup {HELLOWORLD}
    /\ key \in Strings(RawChars, MaxKeyLen) \cup {KEY}
    /\ Idle

CallEncrypt ==
    /\ pc = "ready"
    /\ pc' = "encrypted"
    /\ ret' = encrypt(text, key)
    /\ UNCHANGED <<text, key, verbosity, multiples, distances, div_freqs, key_length, raw_key>>

CallDecrypt ==
    /\ pc = "ready"
    /\ pc' = "decrypted"
    /\ ret' = decrypt(text, key)
    /\ UNCHANGED <<text, key, verbosity, multiples, distances, div_freqs, key_length, raw_key>>

\* decrypt(encrypt(text, key), key): the cypher encrypt returned, under the same key
CallDecryptBack ==
    /\ pc = "encrypted"
    /\ ret.kind = "return"
    /\ pc' = "roundtrip"
    /\ ret' = decrypt(ret.value, key)
    /\ UNCHANGED <<text, key, verbosity, multiples, distances, div_freqs, key_length, raw_key>>

NextCipher == CallEncrypt \/ CallDecrypt \/ CallDecryptBack

SpecCipher == InitCipher /\ [][NextCipher]_vars

----------------------------------------------------------------------------
(* Claims about the cipher primitives, under SpecCipher *)

IsLetters(s) == \A i \in 1..Len(s) : s[i] \in Range(ALPHABET) \cup Range(LOWERCASE)

\* The Vigenere shift of normalized text np by normalized key nk, the key
\* cycled by its own length; sign is 1 (encrypt) or -1 (decrypt)
ShiftedBy(np, nk, sign) ==
    [i \in 1..Len(np) |->
        ALPHABET[((AlphabetIndex(np[i]) + sign * AlphabetIndex(nk[((i - 1) % Len(nk)) + 1]))
                  % 26) + 1]]

\* C1: for every letter sequence P (either case, possibly empty) and every
\* non-empty letter-sequence key K, encrypt(P, K) returns and
\* decrypt(encrypt(P, K), K) returns normalize_text(P).
C1_RoundTrip ==
    (IsLetters(text) /\ IsLetters(key) /\ key # <<>>) =>
        /\ pc = "encrypted" => ret.kind = "return"
        /\ pc = "roundtrip" => ret = Return(normalize_text(text))

\* a round trip of a mixed-case plaintext longer than its key, with wrap-around
C1_Witness ==
    /\ pc = "roundtrip"
    /\ text = <<"z", "B", "z">>
    /\ key = <<"B", "z">>
    /\ ret = Return(<<"Z", "B", "Z">>)

\* C2: for any raw plaintext and raw key whose normalized key NK is non-empty,
\* encrypt returns the normalized plaintext shifted forward letter by letter
\* by NK cycled by |NK| (so encrypt("HELLOWORLD", "KEY") = "RIJVSUYVJN"), and
\* decrypt returns it shifted backward.
C2_ShiftByNormalizedKey ==
    normalize_text(key) # <<>> =>
        /\ pc = "encrypted" =>
              ret = Return(ShiftedBy(normalize_text(text), normalize_text(key), 1))
        /\ pc = "decrypted" =>
              ret = Return(ShiftedBy(normalize_text(text), normalize_text(key), -1))
        /\ (pc = "encrypted" /\ text = HELLOWORLD /\ key = KEY) => ret = Return(RIJVSUYVJN)

\* C3: encrypt and decrypt with a key whose normalized form is empty fail with
\* EmptyKeyError, whatever the text.
C3_EmptyKeyError ==
    (pc \in {"encrypted", "decrypted"} /\ normalize_text(key) = <<>>) =>
        ret = Raise("EmptyKeyError")

----------------------------------------------------------------------------
(* Cracking functions: repeated ngrams *)

\* The inner loop of find_multiples, "for n in range(MIN_NGRAM, MAX_NGRAM+1)",
\* from n on, at end index i; mult is the dict built so far, every ngram seen
\* with the start positions recorded for it.
RECURSIVE find_multiples_ngrams(_, _, _, _)
find_multiples_ngrams(cypher, i, n, mult) ==
    IF n > MAX_NGRAM THEN mult
    ELSE IF n > i + 1 THEN find_multiples_ngrams(cypher, i, n + 1, mult)
    ELSE LET pos == i - n + 1
             ngram == SubSeq(cypher, pos + 1, i + 1)
             j == DictIndex(mult, ngram)
         IN  IF j = 0
             THEN find_multiples_ngrams(cypher, i, n + 1,
                     Append(mult, [k |-> ngram, v |-> <<pos>>]))
             ELSE find_multiples_ngrams(cypher, i, n + 1,
                     [mult EXCEPT ![j].v = Append(@, pos)])

\* The outer loop, "for i in range(len(cypher))", from i on
RECURSIVE find_multiples_scan(_, _, _)
find_multiples_scan(cypher, i, mult) ==
    IF i >= Len(cypher) THEN mult
    ELSE find_multiples_scan(cypher, i + 1, find_multiples_ngrams(cypher, i, MIN_NGRAM, mult))

\* a find_multiples that keeps every ngram it has seen
find_multiples_keep_all(cypher, verb) ==
    SelectSeq(find_multiples_scan(cypher, 0, <<>>), LAMBDA e : Len(e.v) > 0)

\* verbosity only prints ("Multiple: ...")
find_multiples(cypher, verb) ==
    SelectSeq(find_multiples_scan(cypher, 0, <<>>), LAMBDA e : Len(e.v) > 1)

----------------------------------------------------------------------------
(* Cracking functions: distances *)

\* for i in range(i, len(positions)): positions[i] - j for j in positions[:i]
RECURSIVE entry_distances(_, _)
entry_distances(positions, i) ==
    IF i >= Len(positions) THEN <<>>
    ELSE [j \in 1..i |-> positions[i + 1] - positions[j]] \o entry_distances(positions, i + 1)

\* the loop over multiples.items() from entry e on; the inner loop starts at i = 2
RECURSIVE calc_distances_from(_, _)
calc_distances_from(mult, e) ==
    IF e > Len(mult) THEN <<>>
    ELSE entry_distances(mult[e].v, 2) \o calc_distances_from(mult, e + 1)

calc_distances(mult, verb) == calc_distances_from(mult, 1)

----------------------------------------------------------------------------
(* Cracking functions: prime factors and common divisors *)

\* the inner "while n % d == 0" loop: <<n, factors>> after it ("n /= d" is a
\* float division, exact here: d divides n); entered with n > 1 only
RECURSIVE prime_factors_divide(_, _, _)
prime_factors_divide(n, d, factors) ==
    IF n % d = 0
    THEN prime_factors_divide(n \div d, d, Append(factors, d))
    ELSE <<n, factors>>

\* the outer "while n > 1" loop
RECURSIVE prime_factors_loop(_, _, _)
prime_factors_loop(n, d, factors) ==
    IF ~(n > 1) THEN factors
    ELSE LET r == prime_factors_divide(n, d, factors)
             d2 == d + 1
         IN  IF d2 * d2 > r[1]
             THEN (IF r[1] > 1 THEN Append(r[2], r[1]) ELSE r[2])
             ELSE prime_factors_loop(r[1], d2, r[2])

prime_factors(n) == prime_factors_loop(n, 2, <<>>)

\* itertools.permutations(range(k), r): the r-tuples of distinct indices (here
\* 1..k), in lexicographic order
RECURSIVE permutations_ext(_, _, _), permutations_try(_, _, _, _)
permutations_ext(k, r, prefix) ==
    IF Len(prefix) = r THEN <<prefix>> ELSE permutations_try(k, r, prefix, 1)
permutations_try(k, r, prefix, i) ==
    IF i > k THEN <<>>
    ELSE (IF i \in Range(prefix) THEN <<>> ELSE permutations_ext(k, r, Append(prefix, i)))
         \o permutations_try(k, r, prefix, i + 1)

\* itertools.permutations(divs, r), as tuples of values
permutations(divs, r) ==
    LET idx == permutations_ext(Len(divs), r, <<>>)
    IN  [p \in 1..Len(idx) |-> [q \in 1..r |-> divs[idx[p][q]]]]

\* every c of "for r in range(1, hi): for c in itertools.permutations(divs, r)",
\* from r on, in the order the loops visit them
RECURSIVE arrangements_from(_, _, _)
arrangements_from(divs, r, hi) ==
    IF r >= hi THEN <<>> ELSE permutations(divs, r) \o arrangements_from(divs, r + 1, hi)

\* the arrangements with r up to len(divs) included: the distance itself is a product
arrangements_with_self(divs) == arrangements_from(divs, 1, Len(divs) + 1)

\* for r in range(1, len(divs))
arrangements(divs) == arrangements_from(divs, 1, Len(divs))

\* functools.reduce(operator.mul, c), c not empty
RECURSIVE product(_)
product(c) == IF Len(c) = 1 THEN c[1] ELSE c[1] * product(Tail(c))

\* the body of "for c in ..." over cs[p..]: old is the set of sorted tuples
\* already processed for this distance, freqs the dict so far
RECURSIVE count_arrangements(_, _, _, _)
count_arrangements(cs, p, old, freqs) ==
    IF p > Len(cs) THEN freqs
    ELSE LET c == cs[p]
             t == sorted(c)
             prod == product(c)
             j == DictIndex(freqs, prod)
         IN  IF t \in old THEN count_arrangements(cs, p + 1, old, freqs)
             ELSE IF j = 0
             THEN count_arrangements(cs, p + 1, old \cup {t},
                     Append(freqs, [k |-> prod, v |-> 1]))
             ELSE count_arrangements(cs, p + 1, old \cup {t},
                     [freqs EXCEPT ![j].v = @ + 1])

\* "for divs in divisors" from entry e on, old starting empty for each
RECURSIVE count_divisors(_, _, _)
count_divisors(divisors, e, freqs) ==
    IF e > Len(divisors) THEN freqs
    ELSE count_divisors(divisors, e + 1,
            count_arrangements(arrangements(divisors[e]), 1, {}, freqs))

\* factor_cache only saves recomputing sorted(prime_factors(distance))
find_common_divisors(dists, verb) ==
    LET divisors == [e \in 1..Len(dists) |-> sorted(prime_factors(dists[e]))]
    IN  count_divisors(divisors, 1, <<>>)

----------------------------------------------------------------------------
(* Calls of find_multiples *)

CrackChars == {"A", "B"}

\* the first n letters of base repeated
Periodic(base, n) == [i \in 1..n |-> base[((i - 1) % Len(base)) + 1]]

\* every short text, and long texts with a period of 1 or 2
NormalizedTexts ==
    Strings(CrackChars, MaxTextLen)
    \cup {Periodic(base, n) : base \in [1..2 -> CrackChars], n \in 0..MaxLongLen}

InitMultiples ==
    /\ pc = "ready"
    /\ text \in NormalizedTexts
    /\ key = <<>>
    /\ Idle

CallFindMultiples ==
    /\ pc = "ready"
    /\ pc' = "multiples"
    /\ multiples' = find_multiples(text, verbosity)
    /\ ret' = Return(<<>>)
    /\ UNCHANGED <<text, key, verbosity, distances, div_freqs, key_length, raw_key>>

NextMultiples == CallFindMultiples

SpecMultiples == InitMultiples /\ [][NextMultiples]_vars

----------------------------------------------------------------------------
(* Calls of calc_distances *)

\* the ascending list of a set of positions
RECURSIVE Ascending(_)
Ascending(S) ==
    IF S = {} THEN <<>>
    ELSE LET m == CHOOSE x \in S : \A y \in S : x <= y
         IN  <<m>> \o Ascending(S \ {m})

\* position lists as find_multiples keeps them: ascending, two or more
PositionLists == {Ascending(S) : S \in {T \in SUBSET (0..MaxPos) : Cardinality(T) >= 2}}

InitDistances ==
    /\ pc = "ready"
    /\ text = <<>>
    /\ key = <<>>
    /\ verbosity = 0
    /\ multiples \in
          {<<[k |-> <<"A", "A", "A">>, v |-> p]>> : p \in PositionLists}
          \cup {<<[k |-> <<"A", "A", "A">>, v |-> p], [k |-> <<"A", "A", "B">>, v |-> q]>> :
                  p \in PositionLists, q \in PositionLists}
    /\ distances = <<>>
    /\ div_freqs = <<>>
    /\ key_length = 0
    /\ raw_key = <<>>
    /\ ret = NoCall

CallCalcDistances ==
    /\ pc = "ready"
    /\ pc' = "distances"
    /\ distances' = calc_distances(multiples, verbosity)
    /\ ret' = Return(<<>>)
    /\ UNCHANGED <<text, key, verbosity, multiples, div_freqs, key_length, raw_key>>

NextDistances == CallCalcDistances

SpecDistances == InitDistances /\ [][NextDistances]_vars

----------------------------------------------------------------------------
(* Calls of find_common_divisors *)

InitDivisors ==
    /\ pc = "ready"
    /\ text = <<>>
    /\ key = <<>>
    /\ verbosity = 0
    /\ multiples = <<>>
    /\ distances \in Strings(1..MaxDist, MaxNumDist)
    /\ div_freqs = <<>>
    /\ key_length = 0
    /\ raw_key = <<>>
    /\ ret = NoCall

CallFindCommonDivisors ==
    /\ pc = "ready"
    /\ pc' = "divisors"
    /\ div_freqs' = find_common_divisors(distances, verbosity)
    /\ ret' = Return(<<>>)
    /\ UNCHANGED <<text, key, verbosity, multiples, distances, key_length, raw_key>>

NextDivisors == CallFindCommonDivisors

SpecDivisors == InitDivisors /\ [][NextDivisors]_vars

----------------------------------------------------------------------------
(* Cracking functions: crack *)

\* math.log(0.1*freq + 0.8) in units of 1e-5, rounded, for freq = 1..64
LN_TABLE ==
    << -10536, 0, 9531, 18232, 26236, 33647, 40547, 47000,
       53063, 58779, 64185, 69315, 74194, 78846, 83291, 87547,
       91629, 95551, 99325, 102962, 106471, 109861, 113140, 116315,
       119392, 122378, 125276, 128093, 130833, 133500, 136098, 138629,
       141099, 143508, 145862, 148160, 150408, 152606, 154756, 156862,
       158924, 160944, 162924, 164866, 166771, 168640, 170475, 172277,
       174047, 175786, 177495, 179176, 180829, 182455, 184055, 185630,
       187180, 188707, 190211, 191692, 193152, 194591, 196009, 197408 >>

\* weight = 50*math.log(0.1*freq+0.8)*(10/freq); scores[div] = freq*weight,
\* in units of 1e-5 (the division rounds down; scores of different freq stay
\* far further apart than that)
score(freq) ==
    LET weight == (50 * LN_TABLE[freq] * 10) \div freq
    IN  freq * weight

\* max(div_freqs, key=lambda k: scores[k]) over entries j.., best so far at
\* index best: a later entry replaces it only with a strictly larger score
RECURSIVE max_by_score_from(_, _, _)
max_by_score_from(freqs, j, best) ==
    IF j > Len(freqs) THEN best
    ELSE IF score(freqs[j].v) > score(freqs[best].v)
    THEN max_by_score_from(freqs, j + 1, j)
    ELSE max_by_score_from(freqs, j + 1, best)

\* a max that keeps the last of the entries with the largest score
RECURSIVE max_last_from(_, _, _)
max_last_from(freqs, j, best) ==
    IF j > Len(freqs) THEN best
    ELSE IF score(freqs[j].v) >= score(freqs[best].v)
    THEN max_last_from(freqs, j + 1, j)
    ELSE max_last_from(freqs, j + 1, best)

max_last(freqs) == freqs[max_last_from(freqs, 2, 1)].k

\* top_div = max(div_freqs, key=...), div_freqs not empty
max_by_score(freqs) == freqs[max_by_score_from(freqs, 2, 1)].k

\* cypher[i::key_length]
sub_cypher(cypher, i, step) ==
    LET n == IF i >= Len(cypher) THEN 0 ELSE (Len(cypher) - i + step - 1) \div step
    IN  [m \in 1..n |-> cypher[i + (m - 1) * step + 1]]

\* collections.Counter(s): letter -> count, in order of first occurrence
RECURSIVE Counter_from(_, _, _)
Counter_from(s, p, counts) ==
    IF p > Len(s) THEN counts
    ELSE LET j == DictIndex(counts, s[p])
         IN  IF j = 0
             THEN Counter_from(s, p + 1, Append(counts, [k |-> s[p], v |-> 1]))
             ELSE Counter_from(s, p + 1, [counts EXCEPT ![j].v = @ + 1])

Counter(s) == Counter_from(s, 1, <<>>)

\* x put into a list sorted by descending count, behind the entries with a
\* count as large (the sort is stable: equal counts keep their order)
RECURSIVE by_count_insert(_, _)
by_count_insert(s, x) ==
    IF s = <<>> THEN <<x>>
    ELSE IF x.v > Head(s).v THEN <<x>> \o s
    ELSE <<Head(s)>> \o by_count_insert(Tail(s), x)

RECURSIVE by_count(_)
by_count(counts) ==
    IF counts = <<>> THEN <<>>
    ELSE by_count_insert(by_count(SubSeq(counts, 1, Len(counts) - 1)), counts[Len(counts)])

\* a most_common that sorts the wrong way round: least common first
RECURSIVE least_common_insert(_, _)
least_common_insert(s, x) ==
    IF s = <<>> THEN <<x>>
    ELSE IF x.v < Head(s).v THEN <<x>> \o s
    ELSE <<Head(s)>> \o least_common_insert(Tail(s), x)

RECURSIVE least_common_sorted(_)
least_common_sorted(counts) ==
    IF counts = <<>> THEN <<>>
    ELSE least_common_insert(least_common_sorted(SubSeq(counts, 1, Len(counts) - 1)),
                             counts[Len(counts)])

least_common(counts, n) ==
    SubSeq(least_common_sorted(counts), 1, IF n < Len(counts) THEN n ELSE Len(counts))

\* Counter.most_common(n): the n entries of largest count, largest first
most_common(counts, n) ==
    SubSeq(by_count(counts), 1, IF n < Len(counts) THEN n ELSE Len(counts))

\* "for i in range(key_length)" from column i on, raw the raw_key so far.
\* most_common[1] is read only when verbosity >= 2 (and again at >= 3), and
\* raises IndexError when the column holds fewer than two distinct letters;
\* most_common[0] is read at every verbosity.
RECURSIVE crack_columns(_, _, _, _, _)
crack_columns(cypher, klen, verb, i, raw) ==
    IF i >= klen THEN [exc |-> "", raw_key |-> raw]
    ELSE LET mc == most_common(Counter(sub_cypher(cypher, i, klen)), 2)
         IN  IF verb >= 2 /\ Len(mc) < 2 THEN [exc |-> "IndexError", raw_key |-> raw]
             ELSE IF Len(mc) < 1 THEN [exc |-> "IndexError", raw_key |-> raw]
             ELSE crack_columns(cypher, klen, verb, i + 1, Append(raw, mc[1].k))

\* crack: its outcome (ret) and the locals the outcome was computed from.
\* max() of an empty div_freqs raises ValueError.
crack(cypher_raw, verb) ==
    LET cypher == normalize_text(cypher_raw)
        mult == find_multiples(cypher, verb)
        dists == calc_distances(mult, verb)
        dist_len == Len(dists)
        freqs == find_common_divisors(dists, verb)
        Locals(klen, raw, outcome) ==
            [multiples |-> mult, distances |-> dists, div_freqs |-> freqs,
             key_length |-> klen, raw_key |-> raw, ret |-> outcome]
    IN  IF freqs = <<>> THEN Locals(0, <<>>, Raise("ValueError"))
        ELSE LET top_div == max_by_score(freqs)
             IN  IF dist_len = 0 THEN Locals(0, <<>>, Raise("ZeroDivisionError"))
                 ELSE LET cols == crack_columns(cypher, top_div, verb, 0, <<>>)
                          found == decrypt(cols.raw_key, [i \in 1..top_div |-> MOST_COMMON_LETTER])
                          plain == decrypt(cypher, found.value)
                      IN  IF cols.exc # "" THEN Locals(top_div, cols.raw_key, Raise(cols.exc))
                          ELSE IF found.kind # "return" THEN Locals(top_div, cols.raw_key, found)
                          ELSE IF plain.kind # "return" THEN Locals(top_div, cols.raw_key, plain)
                          ELSE Locals(top_div, cols.raw_key,
                                      Return(<<plain.value, found.value>>))

----------------------------------------------------------------------------
(* Calls of crack *)

\* cyphers beyond the short ones: a tie between divisors 3 and 2 with 3
\* inserted first, and a raw text that crack has to normalize
CrackSamples ==
    { <<"A", "A", "A", "A", "A", "A", "B", "A", "B", "A", "A", "A">>,
      <<"a", "b", "a", "-", "b", "a", "b", "a", "b", "a", "b">> }

InitCrack ==
    /\ pc = "ready"
    /\ text \in Strings(CrackChars, MaxCrackLen) \cup CrackSamples
    /\ key = <<>>
    /\ verbosity \in 0..MaxVerbosity
    /\ multiples = <<>>
    /\ distances = <<>>
    /\ div_freqs = <<>>
    /\ key_length = 0
    /\ raw_key = <<>>
    /\ ret = NoCall

CallCrack ==
    /\ pc = "ready"
    /\ pc' = "cracked"
    /\ LET r == crack(text, verbosity)
       IN  /\ multiples' = r.multiples
           /\ distances' = r.distances
           /\ div_freqs' = r.div_freqs
           /\ key_length' = r.key_length
           /\ raw_key' = r.raw_key
           /\ ret' = r.ret
    /\ UNCHANGED <<text, key, verbosity>>

NextCrack == CallCrack

SpecCrack == InitCrack /\ [][NextCrack]_vars

----------------------------------------------------------------------------
(* Claims about crack's failures and verbosity, under SpecCrack *)

\* C4: whenever crack's divisor-frequency table is empty, crack fails with
\* InsufficientSignalError.
C4_InsufficientSignalError ==
    (pc = "cracked" /\ div_freqs = <<>>) => ret = Raise("InsufficientSignalError")

\* C7: crack's outcome (the plaintext and key returned, or the failure) is the
\* same at every verbosity level.
C7_VerbosityIrrelevant ==
    pc = "cracked" => \A v \in 0..MaxVerbosity : crack(text, v).ret = ret

----------------------------------------------------------------------------
(* Claim about calc_distances, under SpecDistances *)

\* the pairs i < j of positions of entry e, as <<e, i, j>>
PositionPairs(mult) ==
    {t \in (1..Len(mult)) \X (1..(MaxPos + 2)) \X (1..(MaxPos + 2)) :
        t[2] < t[3] /\ t[3] <= Len(mult[t[1]].v)}

\* C5: for every entry with k ascending positions calc_distances emits the
\* k*(k-1)/2 differences pj - pi of all pairs i < j, each strictly positive:
\* every difference occurs among the distances as often as pairs yield it.
C5_AllPairs ==
    pc = "distances" =>
        /\ Len(distances) = Cardinality(PositionPairs(multiples))
        /\ \A p \in 1..Len(distances) : distances[p] > 0
        /\ \A d \in 1..(MaxPos + 1) :
              Cardinality({p \in 1..Len(distances) : distances[p] = d})
              = Cardinality({t \in PositionPairs(multiples) :
                               multiples[t[1]].v[t[3]] - multiples[t[1]].v[t[2]] = d})

----------------------------------------------------------------------------
(* Claim about find_common_divisors, under SpecDivisors *)

\* C6: the table find_common_divisors returns is that of direct divisor
\* enumeration: d is counted once for every distance occurrence D with d
\* dividing D and 1 < d < D, and no other key is present (no key twice, none
\* with a count of 0).
C6_DirectDivisors ==
    pc = "divisors" =>
        /\ \A i, j \in 1..Len(div_freqs) : i # j => div_freqs[i].k # div_freqs[j].k
        /\ \A j \in 1..Len(div_freqs) : div_freqs[j].k \in 1..MaxDist /\ div_freqs[j].v > 0
        /\ \A d \in 1..MaxDist :
              DictGet(div_freqs, d)
              = Cardinality({e \in 1..Len(distances) :
                               1 < d /\ d < distances[e] /\ distances[e] % d = 0})

\* a distance with a repeated prime factor next to one that shares divisors with it
C6_Witness ==
    /\ pc = "divisors"
    /\ distances = <<12, 8>>
    /\ DictGet(div_freqs, 2) = 2
    /\ DictGet(div_freqs, 4) = 2
    /\ DictGet(div_freqs, 6) = 1
    /\ DictGet(div_freqs, 12) = 0

----------------------------------------------------------------------------
(* Claim about find_multiples, under SpecMultiples *)

\* the start positions (0-based) of g in t
Starts(t, g) == {p \in 0..(Len(t) - Len(g)) : SubSeq(t, p + 1, p + Len(g)) = g}

\* C8: find_multiples returns exactly the substrings of length 3 to 16 that
\* start at two or more positions, each once, with the ascending list of all
\* its start positions; nothing when the text is shorter than 3.
C8_RepeatedNgrams ==
    pc = "multiples" =>
        /\ \A i, j \in 1..Len(multiples) : i # j => multiples[i].k # multiples[j].k
        /\ \A e \in 1..Len(multiples) :
              LET g == multiples[e].k
                  ps == multiples[e].v
              IN  /\ Len(g) >= 3 /\ Len(g) <= 16
                  /\ Len(ps) >= 2
                  /\ \A q \in 1..(Len(ps) - 1) : ps[q] < ps[q + 1]
                  /\ Range(ps) = Starts(text, g)
        /\ \A n \in 3..16 : \A p \in 0..(Len(text) - n) :
              LET g == SubSeq(text, p + 1, p + n)
              IN  Cardinality(Starts(text, g)) >= 2 => DictIndex(multiples, g) # 0
        /\ Len(text) < 3 => multiples = <<>>

\* a text whose first 17 letters occur twice: the 16-gram is kept, with three
\* positions, and the 17-gram is not
C8_Witness ==
    /\ pc = "multiples"
    /\ Len(text) = 18
    /\ Cardinality(Starts(text, SubSeq(text, 1, 17))) = 2
    /\ DictIndex(multiples, SubSeq(text, 1, 17)) = 0
    /\ DictIndex(multiples, SubSeq(text, 1, 16)) # 0
    /\ multiples[DictIndex(multiples, SubSeq(text, 1, 16))].v = <<0, 1, 2>>

----------------------------------------------------------------------------
(* Claims about crack's key length and key, under SpecCrack *)

\* C9: with a non-empty table the key length is a divisor of maximal
\* frequency, and the first inserted of those.
C9_FirstMaximalFrequency ==
    (pc = "cracked" /\ div_freqs # <<>>) =>
        \E j \in 1..Len(div_freqs) :
            /\ key_length = div_freqs[j].k
            /\ \A i \in 1..Len(div_freqs) : div_freqs[i].v <= div_freqs[j].v
            /\ \A i \in 1..(j - 1) : div_freqs[i].v < div_freqs[j].v

\* two divisors tied at the maximum, the larger one inserted first and selected
C9_Witness ==
    /\ pc = "cracked"
    /\ \E i, j \in 1..Len(div_freqs) :
          /\ i < j
          /\ div_freqs[i].v = div_freqs[j].v
          /\ \A e \in 1..Len(div_freqs) : div_freqs[e].v <= div_freqs[i].v
          /\ div_freqs[i].k > div_freqs[j].k
          /\ key_length = div_freqs[i].k

\* how often letter x occurs in column c of text t split into klen columns
ColumnCount(t, klen, c, x) ==
    Cardinality({p \in 1..Len(t) : (p - 1) % klen = c /\ t[p] = x})

\* C10: when crack returns with key length L, the key has L letters, key[c]
\* is a most frequent letter of column c shifted back by the index of 'E', and
\* the plaintext is the normalized cypher shifted back by the key.
C10_KeyAssembly ==
    (pc = "cracked" /\ ret.kind = "return") =>
        LET cypher == normalize_text(text)
            plain == ret.value[1]
            found == ret.value[2]
        IN  /\ Len(found) = key_length
            /\ \A c \in 0..(key_length - 1) :
                  \E m \in Range(ALPHABET) :
                      /\ \A x \in Range(ALPHABET) :
                            ColumnCount(cypher, key_length, c, x)
                            <= ColumnCount(cypher, key_length, c, m)
                      /\ found[c + 1] = ALPHABET[((AlphabetIndex(m) - AlphabetIndex("E")) % 26) + 1]
            /\ plain = ShiftedBy(cypher, found, -1)

\* a return at a verbosity that reads the second most common letter: two
\* columns with different most common letters, the second one a tie
C10_Witness ==
    /\ pc = "cracked"
    /\ ret.kind = "return"
    /\ verbosity = 3
    /\ text = <<"A", "B", "A", "A", "B", "A", "A", "B", "A">>
    /\ key_length = 2
    /\ raw_key = <<"A", "B">>
    /\ ret.value = << <<"E", "E", "E", "D", "F", "D", "E", "E", "E">>, <<"W", "X">> >>

====
